---- MODULE Spec2Model ----
(***************************************************************************)
(* Smartish trivia game: the Firestore documents (game, players), the      *)
(* host client (LobbyScreen, HostGameScreen, useScoring, ResultsScreen)    *)
(* and the player clients (handleJoinGame, PlayerGameScreen).              *)
(*                                                                         *)
(* Store writes take effect when they are issued.  A client's React state  *)
(* (lobbyState, players) is what its snapshot listeners last delivered;    *)
(* the host's own writes are echoed to its own listeners at once (the      *)
(* Firestore SDK raises the local snapshot before the write is             *)
(* acknowledged), everybody else's writes arrive by a Deliver step.        *)
(* A state change of the host screen is followed, in the same step, by     *)
(* the effects React runs for it.                                          *)
(***************************************************************************)
EXTENDS Integers, Sequences, FiniteSets, TLC

\* ---- bounds of the model ----
Step == 30000
MaxTime == 60000
MaxNext == 2
MaxDigits == 5
MaxRetries == 3
MaxColumns == 7

\* ---- program constants ----
MAX_SCORE == 1000
MIN_SCORE == 500
QUESTION_DURATION_SECONDS == 30
RevealTimeoutMs == 30000
LlmIdBase == 100

Host == "h"
Players == {"p1", "p2"}
Users == {Host} \cup Players
\* one browser tab per client; "h2" is a second tab of the host's browser (same auth user)
Clients == {"h", "h2", "p1", "p2"}
Uid(c) == IF c = "h2" THEN Host ELSE c
Answers == {"A", "B"}
Null == "null"
NoId == -1

\* parseCSV gives every question the index of its line as id
CsvQuestions(answers) ==
  [i \in 1..Len(answers) |-> [id |-> i - 1, correctAnswer |-> answers[i]]]

\* generateQuestions gives every question the id `llm-${idx}`
LlmQuestions(answers) ==
  [i \in 1..Len(answers) |-> [id |-> LlmIdBase + (i - 1), correctAnswer |-> answers[i]]]

\* the correct-answer columns of the CSV texts the host may paste (<< >>: no valid line)
CsvBank == {<< >>, <<"A", "B">>}
\* the correct answers of the lists the generator may return (<< >>: failure or empty)
LlmBank == {<< >>, <<"B">>}
\* a three-question CSV text whose last question has the correct answer of the first
LongBank == {<< >>, <<"A", "B", "A">>}

\* ---- generateGameCode: Math.random().toString(36).substring(2, 6).toUpperCase() ----
\* some of the digits of base 36, as toString(36) writes them
Digits36 == {"0", "7", "a", "z"}
UpperAlnum == {"0", "7", "A", "Z"}

\* A value of Math.random() in [0, 1), by the digits of its base-36 fraction as toString(36)
\* prints them: no trailing zero; << >> is the value 0.  (0.5 has the one digit "i".)
Fractions ==
  {d \in UNION {[1..n -> Digits36] : n \in 0..MaxDigits} : d = << >> \/ d[Len(d)] # "0"}

toString36(d) == IF d = << >> THEN <<"0">> ELSE <<"0", ".">> \o d

\* String.prototype.substring(from, to) on a string given as the sequence of its characters
substring(str, from, to) ==
  SubSeq(str, from + 1, IF to < Len(str) THEN to ELSE Len(str))

toUpperCase(str) ==
  [i \in 1..Len(str) |-> CASE str[i] = "a" -> "A" [] str[i] = "z" -> "Z" [] OTHER -> str[i]]

generateGameCode(d) == toUpperCase(substring(toString36(d), 2, 6))

\* the code of the session of the other specifications
LiveCode == generateGameCode(<<"a", "7", "z", "0", "z">>)

\* Math.round of the non-negative rational num/den
Round(num, den) == (2 * num + den) \div (2 * den)

\* a decay down to 0 instead of MIN_SCORE
calculateScore_ToZero(responseTimeMs) ==
  IF responseTimeMs < 0 THEN MIN_SCORE
  ELSE LET full == QUESTION_DURATION_SECONDS * 1000
           capped == IF responseTimeMs > full THEN full ELSE responseTimeMs
       IN Round(MAX_SCORE * full - MAX_SCORE * capped, full)

calculateScore(responseTimeMs) ==
  IF responseTimeMs < 0 THEN MIN_SCORE
  ELSE LET full == QUESTION_DURATION_SECONDS * 1000
           capped == IF responseTimeMs > full THEN full ELSE responseTimeMs
           raw == Round(MAX_SCORE * full - (MAX_SCORE - MIN_SCORE) * capped, full)
       IN IF raw < MIN_SCORE THEN MIN_SCORE ELSE raw

\* ---- documents ----
NoGame == [exists |-> FALSE, gameCode |-> << >>, hostUserId |-> Null, status |-> "NONE",
           questions |-> << >>, idx |-> -1, start |-> 0]
NoPlayer == [exists |-> FALSE, score |-> 0, isHost |-> FALSE,
             lastAnswer |-> Null, answerTimestamp |-> 0]
NewPlayer_Scored(host) == [exists |-> TRUE, score |-> 100, isHost |-> host,
                           lastAnswer |-> Null, answerTimestamp |-> 0]
NewPlayer(host) == [exists |-> TRUE, score |-> 0, isHost |-> host,
                    lastAnswer |-> Null, answerTimestamp |-> 0]

HasQuestion(ls) == ls.exists /\ ls.idx >= 0 /\ ls.idx < Len(ls.questions)
QuestionId(ls) == IF HasQuestion(ls) THEN ls.questions[ls.idx + 1].id ELSE NoId
CorrectAnswer(ls) == ls.questions[ls.idx + 1].correctAnswer

Roster(pl) == {u \in Users : pl[u].exists}
activePlayers(pl) == {u \in Users : pl[u].exists /\ ~pl[u].isHost}
allAnswered_CountsHost(pl) == \A u \in Roster(pl) : pl[u].lastAnswer # Null
allAnswered(pl) == \A u \in activePlayers(pl) : pl[u].lastAnswer # Null

\* ---- a client: the React state of App, LobbyScreen, HostGameScreen and useScoring ----
Closed(uid) == [uid |-> uid, open |-> FALSE, creating |-> FALSE, joining |-> FALSE, ls |-> NoGame, pl |-> [u \in Users |-> NoPlayer],
               showAnswers |-> FALSE, isScoring |-> FALSE, scoring |-> FALSE,
               lastRunQuestionId |-> NoId, timer |-> 0, timerIdx |-> -1, pending |-> << >>,
               nReset |-> 0, nOrphan |-> 0,
               starting |-> FALSE, generating |-> FALSE, ending |-> FALSE, lag |-> FALSE,
               failing |-> {}]

isHost(c) == c.ls.exists /\ c.ls.hostUserId = c.uid
LobbyMounted(c) == c.open /\ c.ls.exists /\ c.ls.status \in {"LOBBY", "UPLOAD"}
HostMounted(c) == c.open /\ c.ls.exists /\ c.ls.status = "PLAYING" /\ isHost(c)
PlayerMounted(c) == c.open /\ c.ls.exists /\ c.ls.status = "PLAYING" /\ ~isHost(c)
ResultsMounted(c) == c.open /\ ~LobbyMounted(c) /\ ~HostMounted(c) /\ ~PlayerMounted(c)

\* The writes of a client are acknowledged in the order they were issued: pending holds, in
\* that order, the awaits of the screen's handlers on their writes:
\*   "game"  handleNextQuestion, await updateDoc(gameDocRef, ...)
\*   "run"   useScoring, await Promise.all(updates)
\*   "reset" handleNextQuestion, await Promise.all(... lastAnswer: null ...)
\* live: the screen instance that awaits is still mounted; docs: the player documents
\* written by a "reset".
Await(kind, qid, failed, docs) ==
  [kind |-> kind, qid |-> qid, failed |-> failed, live |-> TRUE, docs |-> docs]
Orphaned(q) == [i \in 1..Len(q) |-> [q[i] EXCEPT !.live = FALSE]]
\* the calls of handleNextQuestion that have not returned yet
InFlight(c) == c.nReset + c.nOrphan
               + Cardinality({i \in 1..Len(c.pending) : c.pending[i].kind # "run"})

\* useState initial values of HostGameScreen and useScoring
FreshScreen(c) == [c EXCEPT !.showAnswers = FALSE, !.isScoring = FALSE, !.scoring = FALSE,
                            !.lastRunQuestionId = NoId, !.timer = 0, !.timerIdx = -1,
                            !.pending = Orphaned(@),
                            !.nReset = 0, !.nOrphan = c.nOrphan + c.nReset]

Winners(c) == {u \in activePlayers(c.pl) : c.pl[u].lastAnswer = CorrectAnswer(c.ls)}
Increase(c, u) ==
  IF c.pl[u].answerTimestamp # 0
  THEN calculateScore(c.pl[u].answerTimestamp - c.ls.start)
  ELSE calculateScore(0)

\* ---- effects of HostGameScreen (one render's closure c, previous render c0) ----

\* the dependency list without lobbyState
RevealDeps_NoLobbyState(c0, c, lsChanged) ==
  \/ allAnswered(c.pl) # allAnswered(c0.pl)
  \/ c.showAnswers # c0.showAnswers
  \/ c.isScoring # c0.isScoring

\* useEffect [lobbyState, allAnswered, showAnswers, isScoring]: re-arm the timer, reveal when all answered
RevealDeps(c0, c, lsChanged) ==
  \/ lsChanged
  \/ allAnswered(c.pl) # allAnswered(c0.pl)
  \/ c.showAnswers # c0.showAnswers
  \/ c.isScoring # c0.isScoring

\* an effect that never arms the timer
RevealArmed_Never(c) == FALSE

RevealArmed(c) == c.ls.status = "PLAYING" /\ c.ls.start # 0

\* the check without allAnswered
RevealByAll_Always(c) == ~c.showAnswers /\ ~c.isScoring

RevealByAll(c) == allAnswered(c.pl) /\ ~c.showAnswers /\ ~c.isScoring

\* useScoring's effect [db, gameCode, currentQuestion?.id, showAnswers]
ScoringDeps(c0, c) ==
  \/ QuestionId(c.ls) # QuestionId(c0.ls)
  \/ c.showAnswers # c0.showAnswers

ScoringGuard(c) ==
  /\ HasQuestion(c.ls)
  /\ c.showAnswers
  /\ c.lastRunQuestionId # QuestionId(c.ls)

\* useEffect(() => setIsScoring(scoring), [scoring])
MirrorDeps(c0, c) == c.scoring # c0.scoring

\* One commit: every effect whose dependencies changed runs on the values of render c;
\* the state they set makes the next render.  A scoring run without a correct answer awaits
\* resolved promises only: it is over (lastRunQuestionId set, scoring false again) at once.
RECURSIVE Settle(_, _, _, _, _, _, _, _)

\* useScoring run(): the score writes for the winners whose document exists
Pay(c, paid, Q) ==
  [u \in Users |-> IF u \in paid THEN [Q[u] EXCEPT !.score = c.pl[u].score + Increase(c, u)]
                                 ELSE Q[u]]

\* the state set by the effects of render c: rd, md: the reveal and the mirror effect run,
\* reveal: the all-answered branch is taken, run: the scoring run starts, for the winners win
Effects(c, t, rd, md, reveal, run, win, paid) ==
  [c EXCEPT
     !.timer = IF rd THEN (IF RevealArmed(c) THEN t + RevealTimeoutMs ELSE 0) ELSE @,
     !.timerIdx = IF rd THEN (IF RevealArmed(c) THEN c.ls.idx ELSE -1) ELSE @,
     !.showAnswers = IF reveal THEN TRUE ELSE @,
     !.scoring = IF run /\ win # {} THEN TRUE ELSE @,
     !.pending = IF run /\ win # {}
                 THEN Append(@, Await("run", QuestionId(c.ls), paid # win, {})) ELSE @,
     !.lastRunQuestionId = IF run /\ win = {} THEN QuestionId(c.ls) ELSE @,
     !.pl = Pay(c, paid, c.pl),
     !.isScoring = IF md THEN c.scoring ELSE @]

RunEffects(c, P, aw, byAll, t, rd, md, reveal, run, win, paid) ==
  Settle(c, Effects(c, t, rd, md, reveal, run, win, paid), FALSE, FALSE, Pay(c, paid, P),
         [u \in Users |-> IF u \in paid THEN Append(aw[u], QuestionId(c.ls)) ELSE aw[u]],
         byAll \/ reveal, t)

\* updateDoc rejects when the document is missing and when the write of the client to that
\* document fails (c.failing)
ScoringRun(c, P, aw, byAll, t, rd, md, reveal, run, win) ==
  RunEffects(c, P, aw, byAll, t, rd, md, reveal, run, win,
             {u \in win : P[u].exists /\ u \notin c.failing})

SettleDeps(c, P, aw, byAll, t, rd, sd, md) ==
  IF ~(rd \/ sd \/ md)
  THEN [c |-> c, P |-> P, aw |-> aw, byAll |-> byAll]
  ELSE ScoringRun(c, P, aw, byAll, t, rd, md, rd /\ RevealArmed(c) /\ RevealByAll(c),
                  sd /\ ScoringGuard(c), IF sd /\ ScoringGuard(c) THEN Winners(c) ELSE {})

Settle(c0, c, lsChanged, mount, P, aw, byAll, t) ==
  SettleDeps(c, P, aw, byAll, t, mount \/ RevealDeps(c0, c, lsChanged),
             mount \/ ScoringDeps(c0, c), mount \/ MirrorDeps(c0, c))

\* A new React state c1 of host client c0: HostGameScreen is mounted, unmounted or re-rendered.
Commit(c0, c1, lsChanged, P, aw, t) ==
  IF HostMounted(c1)
  THEN IF HostMounted(c0)
       THEN Settle(c0, c1, lsChanged, FALSE, P, aw, FALSE, t)
       ELSE Settle(c0, FreshScreen(c1), TRUE, TRUE, P, aw, FALSE, t)
  ELSE [c |-> IF HostMounted(c0) THEN FreshScreen(c1) ELSE c1, P |-> P, aw |-> aw, byAll |-> FALSE]

\* ---- state ----
\* no call is followed
NoCall == [fn |-> "none"]

VARIABLES
  game,        \* the game document
  players,     \* the player documents, by user id
  hc,          \* the clients
  now,         \* Date.now()
  awards,      \* history: per player, the question ids of the score writes of scoring runs
  revealed,    \* history: the question indices revealed since the last start
  expected,    \* history: per player, the awards due for the answers shown at each first reveal
  cause,       \* history: what made showAnswers true in the step just taken
  actor,       \* history: the user whose handler wrote last
  answeredAt,  \* history: per player, the question index shown when lastAnswer was submitted
  call,        \* the call of callGeminiApi or parseCSV that is followed on its own
  late         \* history: the players whose stored answer was first submitted for a question
               \* that a host screen had revealed and scored

vars == <<game, players, hc, now, awards, revealed, expected, cause, actor, answeredAt, call, late>>

Init ==
  /\ game = NoGame
  /\ players = [u \in Users |-> NoPlayer]
  /\ hc = [k \in Clients |-> Closed(Uid(k))]
  /\ now = Step
  /\ awards = [u \in Users |-> << >>]
  /\ revealed = {}
  /\ expected = [u \in Users |-> 0]
  /\ cause = "none"
  /\ actor = Null
  /\ answeredAt = [u \in Users |-> NoId]
  /\ late = {}
  /\ call = NoCall

\* What the listeners of client c hand to setLobbyState and setPlayers.  The screens of a
\* client that is not the host's read the status, the host id and the current question of the
\* game, and the existence and lastAnswer of the client's own player: only those are kept.
GameSnapshot(c, G) ==
  IF c.uid = Host THEN G ELSE [G EXCEPT !.start = 0]

\* ---- the documented security rules of the player documents ----
\* allow create: if request.auth != null && request.auth.uid == playerId
allowCreate(auth, playerId) == auth # Null /\ auth = playerId

\* allow update: if request.auth != null && request.auth.uid == playerId &&
\*                  request.resource.data.score == resource.data.score
allowUpdate(auth, playerId, resource, request) ==
  auth # Null /\ auth = playerId /\ request.score = resource.score

\* allow delete: if request.auth != null
allowDelete(auth) == auth # Null

\* the rule that decides a write that takes the player document from resource to request
allowWrite(auth, playerId, resource, request) ==
  CASE ~resource.exists /\ request.exists -> allowCreate(auth, playerId)
    [] resource.exists /\ ~request.exists -> allowDelete(auth)
    [] OTHER -> allowUpdate(auth, playerId, resource, request)

OwnFields(p) == IF p.exists THEN [NewPlayer(FALSE) EXCEPT !.lastAnswer = p.lastAnswer] ELSE NoPlayer

\* a reset that leaves the answer time
ResetForNext_KeepsTime(p) == IF p.exists THEN [p EXCEPT !.lastAnswer = Null] ELSE p

\* handleNextQuestion: updateDoc(docSnap.ref, { lastAnswer: null, answerTimestamp: null })
ResetForNext(p) == IF p.exists THEN [p EXCEPT !.lastAnswer = Null, !.answerTimestamp = 0] ELSE p

\* the documents a "reset" of client c has written and that is not acknowledged yet
Resetting(c) == UNION {c.pending[i].docs : i \in 1..Len(c.pending)}

\* The SDK shows a document with the client's unacknowledged writes laid over it: until the
\* reset of handleNextQuestion is acknowledged the host sees lastAnswer: null.
PlayersSnapshot(c, P) ==
  IF c.uid = Host
  THEN [u \in Users |-> IF u \in Resetting(c) THEN ResetForNext(P[u]) ELSE P[u]]
  ELSE [u \in Users |-> IF u = c.uid THEN OwnFields(P[u]) ELSE NoPlayer]

\* The game listener of the players' clients: they see a write of the game document with
\* the write (their own player document reaches them by DeliverPlayers), unless the
\* client's listener lags: then the snapshot reaches it by DeliverGame.
Sync(H, G1) ==
  IF G1 # game
  THEN [j \in Clients |-> IF H[j].open /\ H[j].uid # Host /\ G1.exists /\ ~H[j].lag
                          THEN [H[j] EXCEPT !.ls = GameSnapshot(H[j], G1)] ELSE H[j]]
  ELSE H

AwardDue(c, u) ==
  IF HasQuestion(c.ls) /\ u \in Winners(c) THEN Increase(c, u) ELSE 0

\* the history of a step of client k that ends in React state r.c
Record(k, r, G1, RV1, EX1, direct, revealNow) ==
  /\ hc' = Sync([hc EXCEPT ![k] = r.c], G1)
  /\ game' = G1
  /\ players' = r.P
  /\ awards' = r.aw
  /\ revealed' = IF revealNow THEN RV1 \cup {r.c.ls.idx} ELSE RV1
  /\ expected' = IF revealNow /\ r.c.ls.idx \notin RV1
                 THEN [u \in Users |-> EX1[u] + AwardDue(r.c, u)] ELSE EX1
  /\ cause' = IF revealNow THEN (IF r.byAll THEN "all" ELSE direct) ELSE "none"
  /\ actor' = IF G1 # game \/ r.P # players THEN hc[k].uid ELSE actor
  /\ now' = now
  /\ call' = call

Committed(k, r, G1, RV1, EX1, direct) ==
  Record(k, r, G1, RV1, EX1, direct,
         HostMounted(r.c) /\ r.c.showAnswers /\ ~(HostMounted(hc[k]) /\ hc[k].showAnswers))

\* Client k's React state becomes c1 (and the store G1, P1): commit, run the effects, keep the history.
Apply(k, c1, lsChanged, G1, P1, AW1, RV1, EX1, direct) ==
  /\ Committed(k, Commit(hc[k], c1, lsChanged, P1, AW1, now), G1, RV1, EX1, direct)
  /\ answeredAt' = [u \in Users |-> IF P1[u].lastAnswer = Null THEN NoId ELSE answeredAt[u]]
  /\ late' = {u \in late : P1[u].lastAnswer # Null}

\* a handler of client k that leaves the store and the history alone
Local(k, c1, direct) == Apply(k, c1, FALSE, game, players, awards, revealed, expected, direct)

\* updateDoc on the game document fails when the document does not exist
UpdateGame(G, fields) == IF G.exists THEN fields ELSE G

\* ---- handleCreateGame: setDoc(game), then setDoc(host player), then setGameCode ----
CreateGameDoc ==
  /\ ~hc["h"].open /\ ~hc["h"].creating /\ ~game.exists
  /\ \A u \in Users : ~players[u].exists
  /\ actor = Null
  /\ Apply("h", [hc["h"] EXCEPT !.creating = TRUE], FALSE,
           [exists |-> TRUE, gameCode |-> LiveCode, hostUserId |-> Host, status |-> "LOBBY",
            questions |-> << >>, idx |-> -1, start |-> 0],
           players, awards, revealed, expected, "none")

\* handleCreateGame for the value d of Math.random(): doc() throws on an empty code
CreateGameDocWith(d) ==
  /\ ~hc["h"].open /\ ~hc["h"].creating /\ ~game.exists
  /\ \A u \in Users : ~players[u].exists
  /\ actor = Null
  /\ generateGameCode(d) # << >>
  /\ Apply("h", [hc["h"] EXCEPT !.creating = TRUE], FALSE,
           [exists |-> TRUE, gameCode |-> generateGameCode(d), hostUserId |-> Host,
            status |-> "LOBBY", questions |-> << >>, idx |-> -1, start |-> 0],
           players, awards, revealed, expected, "none")

CreatePlayerDoc ==
  /\ hc["h"].creating
  /\ Apply("h", [hc["h"] EXCEPT !.creating = FALSE, !.open = TRUE], FALSE, game,
           [players EXCEPT ![Host] = NewPlayer(TRUE)], awards, revealed, expected, "none")

\* handleCreateGame of another user k whose generateGameCode() returns the code of the live
\* session: setDoc(gameDocRef, ...) is sent without a read of the document
CreateOverGameDoc(k) ==
  /\ ~hc[k].open /\ ~hc[k].creating /\ ~hc[k].joining
  /\ game.exists
  /\ Apply(k, [hc[k] EXCEPT !.creating = TRUE], FALSE,
           [exists |-> TRUE, gameCode |-> LiveCode, hostUserId |-> hc[k].uid, status |-> "LOBBY",
            questions |-> << >>, idx |-> -1, start |-> 0],
           players, awards, revealed, expected, "none")

\* ... then setDoc(playerDocRef, {isHost: true, score: 0, ...}), setGameCode, setMode
CreateOverPlayerDoc(k) ==
  /\ hc[k].creating /\ hc[k].uid # Host
  /\ Apply(k, [hc[k] EXCEPT !.creating = FALSE, !.open = TRUE], FALSE, game,
           [players EXCEPT ![hc[k].uid] = NewPlayer(TRUE)], awards, revealed, expected, "none")

\* ---- handleJoinGame: getDoc(game) and the status check, then setDoc(player), then setGameCode ----
JoinAllowed(G) == G.exists /\ G.status \in {"LOBBY", "UPLOAD"}

JoinRead(k) ==
  /\ ~hc[k].open /\ ~hc[k].joining /\ ~hc[k].creating
  /\ JoinAllowed(game)
  /\ Local(k, [hc[k] EXCEPT !.joining = TRUE], "none")

JoinWrite(k) ==
  /\ hc[k].joining
  /\ Apply(k, [hc[k] EXCEPT !.joining = FALSE, !.open = TRUE], FALSE, game,
           [players EXCEPT ![hc[k].uid] = NewPlayer(FALSE)], awards, revealed, expected, "none")

\* ---- the snapshot listeners of App ----
DeliverGame(k) ==
  /\ hc[k].open
  /\ IF game.exists
     THEN Apply(k, [hc[k] EXCEPT !.ls = GameSnapshot(hc[k], game), !.lag = FALSE], TRUE, game, players, awards, revealed, expected, "none")
     ELSE Apply(k, [Closed(hc[k].uid) EXCEPT !.nOrphan = hc[k].nOrphan + hc[k].nReset,
                                           !.pending = Orphaned(hc[k].pending),
                                           !.starting = hc[k].starting,
                                           !.generating = hc[k].generating],
                TRUE, game, players, awards, revealed, expected, "none")

\* the connection of player k's client becomes slow: snapshots of the game document reach
\* it late
ListenerLags(k) ==
  /\ hc[k].open /\ hc[k].uid # Host /\ ~hc[k].lag
  /\ Local(k, [hc[k] EXCEPT !.lag = TRUE], "none")

\* the writes of host client k to the player documents S start to fail (S = {}: none fails)
WritesFail(k, S) ==
  /\ HostMounted(hc[k]) /\ hc[k].failing # S
  /\ Local(k, [hc[k] EXCEPT !.failing = S], "none")

DeliverPlayers(k) ==
  /\ hc[k].open
  /\ hc[k].pl # PlayersSnapshot(hc[k], players)
  /\ Local(k, [hc[k] EXCEPT !.pl = PlayersSnapshot(hc[k], players)], "none")

\* ---- LobbyScreen ----
\* the controls rendered for everybody in the lobby
HostControls_AnyUser(c) == LobbyMounted(c)

\* the host controls are rendered under {isHost && ...}
HostControls(c) == LobbyMounted(c) /\ isHost(c)

\* the handler without `if (questions.length === 0) return`
handleCSVUpload_SavesEmpty(k, answers) ==
  /\ HostControls(hc[k])
  /\ LET G1 == UpdateGame(game, [game EXCEPT !.questions = CsvQuestions(answers), !.status = "UPLOAD"])
         c1 == IF ~game.exists THEN hc[k]
               ELSE [hc[k] EXCEPT !.ls.questions = CsvQuestions(answers), !.ls.status = "UPLOAD"]
     IN Apply(k, c1, c1 # hc[k], G1, players, awards, revealed, expected, "none")

handleCSVUpload(k, answers) ==
  /\ HostControls(hc[k])
  /\ LET G1 == IF answers = << >> THEN game
               ELSE UpdateGame(game, [game EXCEPT !.questions = CsvQuestions(answers), !.status = "UPLOAD"])
         c1 == IF answers = << >> \/ ~game.exists THEN hc[k]
               ELSE [hc[k] EXCEPT !.ls.questions = CsvQuestions(answers), !.ls.status = "UPLOAD"]
     IN Apply(k, c1, c1 # hc[k], G1, players, awards, revealed, expected, "none")

GenerateClick(k) ==
  /\ HostControls(hc[k])
  /\ ~hc[k].generating
  /\ Local(k, [hc[k] EXCEPT !.generating = TRUE], "none")

GenerateDone(k, answers) ==
  /\ hc[k].generating
  /\ LET G1 == IF answers = << >> THEN game
               ELSE UpdateGame(game, [game EXCEPT !.questions = LlmQuestions(answers), !.status = "UPLOAD"])
         c0 == [hc[k] EXCEPT !.generating = FALSE]
         c1 == IF answers = << >> \/ ~game.exists \/ ~c0.ls.exists THEN c0
               ELSE [c0 EXCEPT !.ls.questions = LlmQuestions(answers), !.ls.status = "UPLOAD"]
     IN Apply(k, c1, c1 # c0, G1, players, awards, revealed, expected, "none")

\* the button without the players.length condition
StartEnabled_AnyRoster(c) == isHost(c) /\ Len(c.ls.questions) # 0

\* the Start Game button: disabled={questionCount === 0 || players.length < 2}
StartEnabled(c) ==
  /\ isHost(c)
  /\ Len(c.ls.questions) # 0
  /\ Cardinality(Roster(c.pl)) >= 2

ResetForStart(p) == IF p.exists THEN [p EXCEPT !.lastAnswer = Null, !.score = 0, !.answerTimestamp = 0] ELSE p

\* handleStartGame: the guard, getDocs and the reset of every player document
StartClick(k) ==
  /\ HostControls(hc[k])
  /\ StartEnabled(hc[k])
  /\ ~hc[k].starting
  /\ LET P1 == [u \in Users |-> ResetForStart(players[u])]
     IN Apply(k, [hc[k] EXCEPT !.starting = TRUE, !.pl = PlayersSnapshot(hc[k], P1)], FALSE,
              game, P1, [u \in Users |-> << >>], {}, [u \in Users |-> 0], "none")

\* handleStartGame: updateDoc(game) after await Promise.all(resetPromises)
StartWrite(k) ==
  /\ hc[k].starting
  /\ LET G1 == UpdateGame(game, [game EXCEPT !.status = "PLAYING", !.idx = 0, !.start = now])
         c0 == [hc[k] EXCEPT !.starting = FALSE]
         c1 == IF game.exists /\ c0.ls.exists
               THEN [c0 EXCEPT !.ls.status = "PLAYING", !.ls.idx = 0, !.ls.start = now]
               ELSE c0
     IN Apply(k, c1, c1 # c0, G1, players, awards, revealed, expected, "none")

\* ---- HostGameScreen ----
\* the buttons are rendered below `if (!currentQuestion) return null`
HostButtons(c) == HostMounted(c) /\ HasQuestion(c.ls)

\* "Reveal Answers Now": shown while !showAnswers, disabled={isScoring}
RevealNow(k) ==
  /\ HostButtons(hc[k])
  /\ ~hc[k].showAnswers /\ ~hc[k].isScoring
  /\ Local(k, [hc[k] EXCEPT !.showAnswers = TRUE], "manual")

\* the setTimeout callback of the reveal effect
TimerFire(k) ==
  /\ hc[k].timer # 0 /\ hc[k].timer <= now
  /\ Local(k, [hc[k] EXCEPT !.timer = 0, !.timerIdx = -1,
                            !.showAnswers = IF ~@ /\ ~hc[k].isScoring THEN TRUE ELSE @], "timer")

\* useScoring: the rest of run() after await Promise.all(updates)
ScoringDone(k) ==
  /\ hc[k].pending # << >> /\ Head(hc[k].pending).kind = "run"
  /\ LET e == Head(hc[k].pending)
         c == [hc[k] EXCEPT !.pending = Tail(@)]
     IN Local(k, IF e.live
                 THEN [c EXCEPT !.lastRunQuestionId = IF e.failed THEN @ ELSE e.qid,
                                !.scoring = FALSE]
                 ELSE c, "none")

\* "Next Question" / "End Game & Show Results": shown while showAnswers, disabled={isScoring}
NextEnabled(c) == HostButtons(c) /\ c.showAnswers /\ ~c.isScoring

\* an index that skips a question
nextIndex_Skip(ls) == ls.idx + 2

\* const nextIndex = lobbyState.currentQuestionIndex + 1
nextIndex(ls) == ls.idx + 1

\* handleNextQuestion up to its first await
NextClick(k) ==
  /\ NextEnabled(hc[k])
  /\ InFlight(hc[k]) < MaxNext
  /\ LET c == hc[k]
     IN IF nextIndex(c.ls) < Len(c.ls.questions)
        THEN Apply(k, [c EXCEPT !.pending = Append(@, Await("game", NoId, FALSE, {})),
                                !.ls.idx = IF game.exists THEN nextIndex(c.ls) ELSE @,
                                !.ls.start = IF game.exists THEN now ELSE @],
                   game.exists,
                   UpdateGame(game, [game EXCEPT !.idx = nextIndex(c.ls), !.start = now]),
                   players, awards, revealed, expected, "none")
        ELSE Apply(k, [c EXCEPT !.ls.status = IF game.exists THEN "RESULTS" ELSE @],
                   game.exists,
                   UpdateGame(game, [game EXCEPT !.status = "RESULTS"]),
                   players, awards, revealed, expected, "none")

\* handleNextQuestion: the game write is acknowledged, getDocs is sent
NextAck(k) ==
  /\ hc[k].pending # << >> /\ Head(hc[k].pending).kind = "game"
  /\ Local(k, IF Head(hc[k].pending).live
              THEN [hc[k] EXCEPT !.pending = Tail(@), !.nReset = @ + 1]
              ELSE [hc[k] EXCEPT !.pending = Tail(@), !.nOrphan = @ + 1], "none")

\* handleNextQuestion: getDocs answers, every player document is reset
NextReset(k) ==
  /\ hc[k].nReset + hc[k].nOrphan > 0
  /\ LET P1 == [u \in Users |-> ResetForNext(players[u])]
         c1 == IF hc[k].nReset > 0
               THEN [hc[k] EXCEPT !.nReset = @ - 1, !.pending = Append(@, Await("reset", NoId, FALSE, Roster(players)))]
               ELSE [hc[k] EXCEPT !.nOrphan = @ - 1]
     IN Apply(k, [c1 EXCEPT !.pl = IF c1.open THEN PlayersSnapshot(c1, P1) ELSE @], FALSE,
              game, P1, awards, revealed, expected, "none")

\* handleNextQuestion: setShowAnswers(false); setExplanation(null); setIsScoring(false)
NextFinish(k) ==
  /\ hc[k].pending # << >> /\ Head(hc[k].pending).kind = "reset"
  /\ LET c == [hc[k] EXCEPT !.pending = Tail(@)]
     IN Local(k, IF Head(hc[k].pending).live
                 THEN [c EXCEPT !.showAnswers = FALSE, !.isScoring = FALSE]
                 ELSE c, "none")

\* ---- PlayerGameScreen.handleAnswerSubmit ----
\* a host screen shows question i with the answers revealed and its scoring run finished
ScoredAlready(i) ==
  \E j \in Clients :
    /\ HostMounted(hc[j]) /\ HasQuestion(hc[j].ls) /\ hc[j].ls.idx = i
    /\ hc[j].showAnswers /\ ~hc[j].scoring /\ i \in revealed
    /\ hc[j].lastRunQuestionId = QuestionId(hc[j].ls)

SubmitGuard(c) == c.pl[c.uid].exists /\ c.pl[c.uid].lastAnswer = Null

\* updateDoc(playerDocRef, { lastAnswer: answer, answerTimestamp: Date.now() })
AnswerFields_Score(p, a, t) ==
  [p EXCEPT !.lastAnswer = a, !.answerTimestamp = t, !.score = @ + MAX_SCORE]
AnswerFields(p, a, t) == [p EXCEPT !.lastAnswer = a, !.answerTimestamp = t]

SubmitAnswer(k, a) ==
  /\ PlayerMounted(hc[k]) /\ HasQuestion(hc[k].ls)
  /\ SubmitGuard(hc[k])
  /\ players[hc[k].uid].exists
  /\ Committed(k, Commit(hc[k], hc[k], FALSE,
                         [players EXCEPT ![hc[k].uid] = AnswerFields(@, a, now)], awards, now),
               game, revealed, expected, "none")
  /\ answeredAt' = [answeredAt EXCEPT ![hc[k].uid] = hc[k].ls.idx]
  /\ late' = IF players[hc[k].uid].lastAnswer = Null /\ ScoredAlready(hc[k].ls.idx)
             THEN late \cup {hc[k].uid} ELSE late

\* ---- ResultsScreen.handleEndGame ----
EndClick(k) ==
  /\ ResultsMounted(hc[k]) /\ isHost(hc[k])
  /\ ~hc[k].ending
  /\ Apply(k, [hc[k] EXCEPT !.ending = TRUE, !.pl = [u \in Users |-> NoPlayer]], FALSE,
           game, [u \in Users |-> NoPlayer], awards, revealed, expected, "none")

EndDelete(k) ==
  /\ hc[k].ending
  /\ Apply(k, [Closed(hc[k].uid) EXCEPT !.nOrphan = hc[k].nOrphan + hc[k].nReset,
                                        !.pending = Orphaned(hc[k].pending),
                                        !.starting = hc[k].starting,
                                        !.generating = hc[k].generating],
           TRUE, NoGame, players, awards, revealed, expected, "none")

\* ---- time ----
Due(k) == hc[k].timer # 0 /\ hc[k].timer <= now
Deadlines == {hc[k].timer : k \in {j \in Clients : hc[j].timer > now}}
Min(S) == CHOOSE x \in S : \A y \in S : x <= y

Tick ==
  /\ now < MaxTime
  /\ \A k \in Clients : ~Due(k)
  /\ now' = Min(Deadlines \cup {now + Step})
  /\ cause' = "none"
  /\ UNCHANGED <<game, players, hc, awards, revealed, expected, actor, answeredAt, call, late>>

\* ---- the steps of the clients: J may join by code, A may answer, the host pastes a
\* ---- CSV text of bank B
Steps(J, A, B) ==
  \/ CreateGameDoc
  \/ CreatePlayerDoc
  \/ \E k \in J : JoinRead(k)
  \/ \E k \in J : JoinWrite(k)
  \/ \E k \in Clients : DeliverGame(k)
  \/ \E k \in Clients : DeliverPlayers(k)
  \/ \E k \in Clients, answers \in B : handleCSVUpload(k, answers)
  \/ \E k \in Clients : StartClick(k)
  \/ \E k \in Clients : StartWrite(k)
  \/ \E k \in Clients : RevealNow(k)
  \/ \E k \in Clients : ScoringDone(k)
  \/ \E k \in Clients : NextClick(k)
  \/ \E k \in Clients : NextAck(k)
  \/ \E k \in Clients : NextReset(k)
  \/ \E k \in Clients : NextFinish(k)
  \/ \E k \in A, a \in Answers : SubmitAnswer(k, a)
  \/ \E k \in Clients : EndClick(k)
  \/ \E k \in Clients : EndDelete(k)

\* one host tab; p2 joins but leaves every question unanswered
Next ==
  \/ Steps(Players, {"p1"}, CsvBank)
  \/ \E k \in Clients : TimerFire(k)
  \/ Tick

Spec == Init /\ [][Next]_vars

\* one host tab, manual reveals; the game listener of p1, the only player who answers, may
\* lag behind the game document
NextStale ==
  \/ Steps({"p1"}, {"p1"}, CsvBank)
  \/ ListenerLags("p1")

SpecStale == Init /\ [][NextStale]_vars

\* ---- the timer alone: one host tab, p1 joins and never answers, no reveal button ----
\* the last time at which a timer may be armed so that it fires before time ends
LiveMaxTime == MaxTime + 2 * Step
InTime == now + RevealTimeoutMs <= LiveMaxTime

\* onSnapshot(gameDocRef) calls back when the document has changed
DeliverGameNew(k) ==
  /\ hc[k].ls # GameSnapshot(hc[k], game)
  /\ DeliverGame(k)

TickLive ==
  /\ now < LiveMaxTime
  /\ \A k \in Clients : ~Due(k)
  /\ now' = Min(Deadlines \cup {now + Step})
  /\ cause' = "none"
  /\ UNCHANGED <<game, players, hc, awards, revealed, expected, actor, answeredAt, call, late>>

NextLive ==
  \/ InTime /\ CreateGameDoc
  \/ InTime /\ CreatePlayerDoc
  \/ InTime /\ JoinRead("p1")
  \/ InTime /\ JoinWrite("p1")
  \/ \E k \in {"h", "p1"} : InTime /\ DeliverGameNew(k)
  \/ \E k \in {"h", "p1"} : InTime /\ DeliverPlayers(k)
  \/ \E answers \in CsvBank : InTime /\ handleCSVUpload("h", answers)
  \/ InTime /\ StartClick("h")
  \/ InTime /\ StartWrite("h")
  \/ InTime /\ NextClick("h")
  \/ InTime /\ NextAck("h")
  \/ InTime /\ NextReset("h")
  \/ InTime /\ NextFinish("h")
  \/ TimerFire("h")
  \/ TickLive

\* the timer callback runs when it is due, and time passes
SpecLive == Init /\ [][NextLive]_vars /\ WF_vars(TimerFire("h")) /\ WF_vars(TickLive)

\* one host tab, two questions, reveals by all answers; both players answer B; the host's
\* writes to p2's document start to fail at some moment
NextFail ==
  \/ CreateGameDoc
  \/ CreatePlayerDoc
  \/ \E k \in Players : game.status = "LOBBY" /\ JoinRead(k)
  \/ \E k \in Players : JoinWrite(k)
  \/ \E k \in Clients : DeliverGameNew(k)
  \/ \E k \in Clients : DeliverPlayers(k)
  \/ handleCSVUpload("h", <<"A", "B">>)
  \/ StartClick("h")
  \/ StartWrite("h")
  \/ ScoringDone("h")
  \/ NextClick("h")
  \/ NextAck("h")
  \/ NextReset("h")
  \/ NextFinish("h")
  \/ \E k \in Players : SubmitAnswer(k, "B")
  \/ WritesFail("h", {"p2"})

SpecFail == Init /\ [][NextFail]_vars

\* one host tab, three questions, p1 leaves every question unanswered; reveals are manual
\* or by all answers
NextLong == Steps(Players, {"p2"}, LongBank)

SpecLong == Init /\ [][NextLong]_vars

\* one host tab and one player who never answers; the host also uses the question generator
NextGen ==
  \/ CreateGameDoc
  \/ CreatePlayerDoc
  \/ JoinRead("p1")
  \/ JoinWrite("p1")
  \/ \E k \in Clients : DeliverGame(k)
  \/ \E k \in Clients : DeliverPlayers(k)
  \/ \E k \in Clients, answers \in CsvBank : handleCSVUpload(k, answers)
  \/ \E k \in Clients : GenerateClick(k)
  \/ \E k \in Clients, answers \in LlmBank : GenerateDone(k, answers)
  \/ \E k \in Clients : StartClick(k)
  \/ \E k \in Clients : StartWrite(k)
  \/ \E k \in Clients : RevealNow(k)
  \/ \E k \in Clients : NextClick(k)
  \/ \E k \in Clients : NextAck(k)
  \/ \E k \in Clients : NextReset(k)
  \/ \E k \in Clients : NextFinish(k)
  \/ \E k \in Clients : EndClick(k)
  \/ \E k \in Clients : EndDelete(k)

SpecGen == Init /\ [][NextGen]_vars

\* one host tab and p1; p2 creates a game of its own and draws the same code
NextCodes ==
  \/ CreateGameDoc
  \/ CreatePlayerDoc
  \/ JoinRead("p1")
  \/ JoinWrite("p1")
  \/ \E k \in Clients : DeliverGame(k)
  \/ \E k \in Clients : DeliverPlayers(k)
  \/ \E k \in Clients, answers \in CsvBank : handleCSVUpload(k, answers)
  \/ \E k \in Clients : StartClick(k)
  \/ \E k \in Clients : StartWrite(k)
  \/ \E a \in Answers : SubmitAnswer("p1", a)
  \/ \E k \in Clients : RevealNow(k)
  \/ \E k \in Clients : ScoringDone(k)
  \/ CreateOverGameDoc("p2")
  \/ CreateOverPlayerDoc("p2")

SpecCodes == Init /\ [][NextCodes]_vars

\* the creation of a session, for every value of Math.random()
NextCreate ==
  \/ \E d \in Fractions : CreateGameDocWith(d)
  \/ CreatePlayerDoc

SpecCreate == Init /\ [][NextCreate]_vars

\* The host opens the game in a second tab of the same browser (same user id) and joins it
\* there with the code shown in the lobby of the first tab; the lobby is driven from the
\* first tab, question 0 is shown in both.
NextTabs ==
  \/ CreateGameDoc
  \/ CreatePlayerDoc
  \/ \E k \in {"h2", "p1"} : hc["h"].open /\ JoinRead(k)
  \/ \E k \in {"h2", "p1"} : JoinWrite(k)
  \/ \E k \in Clients : DeliverGame(k)
  \/ \E k \in Clients : DeliverPlayers(k)
  \/ \E answers \in CsvBank : handleCSVUpload("h", answers)
  \/ StartClick("h")
  \/ StartWrite("h")
  \/ \E k \in Clients : RevealNow(k)
  \/ \E k \in Clients : TimerFire(k)
  \/ \E k \in Clients : ScoringDone(k)
  \/ \E a \in Answers : SubmitAnswer("p1", a)
  \/ Tick

SpecTabs == Init /\ [][NextTabs]_vars

\* ---- useScoring's award for one correct answer, for every response time ----
\* the response times of the scoring window, in ms
ScoreMaxMs == QUESTION_DURATION_SECONDS * 1000

\* question 0 (correct answer A) is shown since Step; p1 answered A at ts (0: the document
\* has no answerTimestamp); the host's screen has revealed the answers
ScoreGame == [exists |-> TRUE, gameCode |-> LiveCode, hostUserId |-> Host, status |-> "PLAYING",
              questions |-> CsvQuestions(<<"A">>), idx |-> 0, start |-> Step]
ScorePlayers(ts) ==
  [u \in Users |-> IF u = Host THEN NewPlayer(TRUE)
                   ELSE IF u = "p1" THEN [NewPlayer(FALSE) EXCEPT !.lastAnswer = "A",
                                                                 !.answerTimestamp = ts]
                   ELSE NoPlayer]
ScoreHost(ts) == [Closed(Host) EXCEPT !.open = TRUE, !.ls = ScoreGame, !.pl = ScorePlayers(ts),
                                      !.showAnswers = TRUE]
ScoreClients(ts) == [k \in Clients |-> IF k = "h" THEN ScoreHost(ts) ELSE Closed(Uid(k))]

InitScore ==
  \E ts \in {0} \cup (Step..(Step + ScoreMaxMs)) :
    /\ game = ScoreGame
    /\ players = ScorePlayers(ts)
    /\ hc = ScoreClients(ts)
    /\ now = Step + ScoreMaxMs
    /\ awards = [u \in Users |-> << >>]
    /\ revealed = {0}
    /\ expected = [u \in Users |-> 0]
    /\ cause = "none"
    /\ actor = Host
    /\ answeredAt = [u \in Users |-> IF u = "p1" THEN 0 ELSE NoId]
    /\ late = {}
    /\ call = NoCall

\* run(): the increase computed for p1
ScoreRun ==
  /\ cause = "none"
  /\ expected' = [expected EXCEPT !["p1"] = AwardDue(hc["h"], "p1")]
  /\ cause' = "scored"
  /\ UNCHANGED <<game, players, hc, now, awards, revealed, actor, answeredAt, call, late>>

\* the same run for an answer given one millisecond later
ScoreLater ==
  /\ cause = "scored"
  /\ players["p1"].answerTimestamp >= Step
  /\ players["p1"].answerTimestamp < Step + ScoreMaxMs
  /\ players' = ScorePlayers(players["p1"].answerTimestamp + 1)
  /\ hc' = ScoreClients(players["p1"].answerTimestamp + 1)
  /\ expected' = [expected EXCEPT !["p1"] = AwardDue(hc'["h"], "p1")]
  /\ UNCHANGED <<game, now, awards, revealed, cause, actor, answeredAt, call, late>>

NextScore == ScoreRun \/ ScoreLater

SpecScore == InitScore /\ [][NextScore]_vars

\* ---- callGeminiApi(payload, { retries }) ----
\* what makes an attempt fail: !res.ok, json.error, no text with finishReason SAFETY, no
\* text, fetch or res.json() rejecting
ApiErrors == {"http", "errorField", "safety", "empty", "network"}

\* const delay = Math.pow(2, attempt) * 1000
delay(attempt) == (2 ^ attempt) * 1000

\* a catch that never rethrows
lastAttempt_Never(attempt, retries) == FALSE

\* if (attempt === retries - 1) throw err
lastAttempt(attempt, retries) == attempt = retries - 1

\* the call: key: GEMINI_API_KEY is set; tried: the fetches made; errs: the errors of the
\* failed attempts; waits: the delays waited; text, error: what is returned or thrown
ApiCall(key, retries) ==
  [fn |-> "callGeminiApi", key |-> key, retries |-> retries, phase |-> "called", attempt |-> 0,
   tried |-> 0, errs |-> << >>, waits |-> << >>, text |-> Null, error |-> Null]

InitApi ==
  /\ game = NoGame
  /\ players = [u \in Users |-> NoPlayer]
  /\ hc = [k \in Clients |-> Closed(Uid(k))]
  /\ now = Step
  /\ awards = [u \in Users |-> << >>]
  /\ revealed = {}
  /\ expected = [u \in Users |-> 0]
  /\ cause = "none"
  /\ actor = Null
  /\ answeredAt = [u \in Users |-> NoId]
  /\ late = {}
  /\ call \in {ApiCall(key, retries) : key \in BOOLEAN, retries \in 1..MaxRetries}

ApiFrame ==
  UNCHANGED <<game, players, hc, now, awards, revealed, expected, cause, actor, answeredAt, late>>

\* the loop is entered (or left at once), or the missing key is thrown
ApiEnter ==
  /\ call.fn = "callGeminiApi" /\ call.phase = "called"
  /\ call' = IF ~call.key THEN [call EXCEPT !.phase = "thrown", !.error = "noKey"]
             ELSE IF 0 < call.retries THEN [call EXCEPT !.phase = "fetch"]
             ELSE [call EXCEPT !.phase = "returned"]
  /\ ApiFrame

\* the attempt gets a text: return text
ApiFetchOk ==
  /\ call.fn = "callGeminiApi" /\ call.phase = "fetch"
  /\ call' = [call EXCEPT !.phase = "returned", !.tried = @ + 1, !.text = "text"]
  /\ ApiFrame

\* the attempt throws e: catch (err) { if (attempt === retries - 1) throw err; ... }
ApiFetchFail(e) ==
  /\ call.fn = "callGeminiApi" /\ call.phase = "fetch"
  /\ call' = IF lastAttempt(call.attempt, call.retries)
             THEN [call EXCEPT !.phase = "thrown", !.tried = @ + 1, !.errs = Append(@, e),
                               !.error = e]
             ELSE [call EXCEPT !.phase = "wait", !.tried = @ + 1, !.errs = Append(@, e)]
  /\ ApiFrame

\* the timeout of the backoff has passed: attempt++, the loop condition, and the end of the
\* function after the loop
ApiWaitDone ==
  /\ call.fn = "callGeminiApi" /\ call.phase = "wait"
  /\ call' = [call EXCEPT !.waits = Append(@, delay(call.attempt)), !.attempt = @ + 1,
                          !.phase = IF call.attempt + 1 < call.retries THEN "fetch"
                                    ELSE "returned"]
  /\ ApiFrame

NextApi ==
  \/ ApiEnter
  \/ ApiFetchOk
  \/ \E e \in ApiErrors : ApiFetchFail(e)
  \/ ApiWaitDone

SpecApi == InitApi /\ [][NextApi]_vars

\* ---- parseCSV, one line of the pasted text ----
\* the text between two commas, as typed
RawCells == {"", "A", " A ", "\"B\""}

\* p.trim().replace(/^"|"$/g, '')
cleanCell(p) ==
  CASE p = " A " -> "A"
    [] p = "\"B\"" -> "B"
    [] OTHER -> p

\* line.split(','): the question and up to MaxColumns - 1 further columns
CsvLines ==
  UNION {{<<"Q">> \o r : r \in [1..n -> RawCells]} : n \in 0..(MaxColumns - 1)}

\* Array.prototype.filter(Boolean) on strings: the empty string is dropped
RECURSIVE filterBoolean(_)
filterBoolean(a) ==
  IF a = << >> THEN << >>
  ELSE IF Head(a) = "" THEN filterBoolean(Tail(a))
       ELSE <<Head(a)>> \o filterBoolean(Tail(a))

\* slice(0, 5)
slice5(a) == SubSeq(a, 1, IF Len(a) < 5 THEN Len(a) ELSE 5)

\* [correctAnswer, ...distractors].filter(Boolean).slice(0, 5)
allOptions(parts) == slice5(filterBoolean(Tail(parts)))

\* the orders shuffleArray can return for n elements
ShuffleOrders ==
  [n \in 0..5 |-> {f \in [1..n -> 1..n] : \A i, j \in 1..n : f[i] = f[j] => i = j}]

shuffleArray(a) == {[i \in 1..Len(a) |-> a[f[i]]] : f \in ShuffleOrders[Len(a)]}

\* return null: the line is dropped by filter(Boolean)
Skipped == [kept |-> FALSE, correctAnswer |-> "", options |-> << >>]

\* the callback of lines.map
parseLine(line) ==
  LET parts == [i \in 1..Len(line) |-> cleanCell(line[i])]
  IN IF Len(parts) < 2 \/ Len(allOptions(parts)) < 2
     THEN {Skipped}
     ELSE {[kept |-> TRUE, correctAnswer |-> parts[2], options |-> o] : o \in shuffleArray(allOptions(parts))}

InitCsv ==
  /\ game = NoGame
  /\ players = [u \in Users |-> NoPlayer]
  /\ hc = [k \in Clients |-> Closed(Uid(k))]
  /\ now = Step
  /\ awards = [u \in Users |-> << >>]
  /\ revealed = {}
  /\ expected = [u \in Users |-> 0]
  /\ cause = "none"
  /\ actor = Null
  /\ answeredAt = [u \in Users |-> NoId]
  /\ late = {}
  /\ call \in {[fn |-> "parseCSV", line |-> l, phase |-> "called", result |-> Skipped] :
                 l \in CsvLines}

ParseLine ==
  /\ call.fn = "parseCSV" /\ call.phase = "called"
  /\ \E q \in parseLine(call.line) : call' = [call EXCEPT !.phase = "done", !.result = q]
  /\ ApiFrame

NextCsv == ParseLine

SpecCsv == InitCsv /\ [][NextCsv]_vars

TypeOK ==
  /\ game.status \in {"NONE", "LOBBY", "UPLOAD", "PLAYING", "RESULTS"}
  /\ now <= MaxTime + RevealTimeoutMs

\* ---- properties ----
NoDuplicates(q) == \A i, j \in 1..Len(q) : q[i] = q[j] => i = j
Shown(c) == HostMounted(c) /\ c.showAnswers
AllIndices(G) == {i - 1 : i \in 1..Len(G.questions)}

\* C1 (as claimed): with one host screen that stays mounted, no player's score is increased
\* twice for the same question, whatever the order of reveal triggers, re-renders and
\* snapshot deliveries.
C1_ScoredAtMostOnce == \A u \in Users : NoDuplicates(awards[u])

\* C2 (as claimed): at RESULTS, after every question was revealed, each player's score is the
\* sum of the awards due for the answers the host saw at each question's reveal.
C2_FinalScoreIsSum ==
  (game.status = "RESULTS" /\ revealed = AllIndices(game))
    => \A u \in Players : players[u].exists => players[u].score = expected[u]

\* C3 (as claimed): a lastAnswer that is non-null is not replaced by another submission
C3_AnswerLocked ==
  [][\A u \in Players :
       (players[u].lastAnswer # Null /\ players'[u].lastAnswer # Null)
         => /\ players'[u].lastAnswer = players[u].lastAnswer
            /\ players'[u].answerTimestamp = players[u].answerTimestamp]_vars

Started == game.status # "PLAYING" /\ game'.status = "PLAYING"

\* C4 (as claimed): the session starts only with >= 1 question and >= 2 non-host players
C4_StartNeedsTwoNonHost ==
  [][Started => Len(game.questions) >= 1 /\ Cardinality(activePlayers(players)) >= 2]_vars

\* C4 (amended): the session starts only with >= 1 question and >= 2 player documents, the
\* host's own included; it then has index 0 and the start time of the write.  The start
\* handler (whose first writes reset the player documents) runs only on the host's screen
\* showing >= 1 question and >= 2 players.
C4_StartNeedsTwoRecords ==
  [][/\ Started => /\ Len(game.questions) >= 1
                   /\ Cardinality(Roster(players)) >= 2
                   /\ game'.idx = 0 /\ game'.start = now
     /\ \A k \in Clients : (~hc[k].starting /\ hc'[k].starting)
           => /\ hc[k].uid = game.hostUserId
              /\ Len(hc[k].ls.questions) >= 1
              /\ Cardinality(Roster(hc[k].pl)) >= 2]_vars

\* C4 witness: a started session with exactly two player documents
C4_Witness == game.status = "PLAYING" /\ game.idx = 0 /\ Cardinality(Roster(players)) = 2

\* C5 (as claimed): the index moves on (or the session ends) only after the current question
\* was revealed and while no scoring run is in flight
C5_AdvanceAfterReveal ==
  [][(game.status = "PLAYING" /\ (game'.idx # game.idx \/ game'.status = "RESULTS"))
       => /\ game.idx \in revealed
          /\ \A k \in Clients : ~hc[k].scoring]_vars

RevealStep(k) == ~Shown(hc[k]) /\ Shown(hc[k])'

\* C6 (as claimed): answers are revealed only when every non-host player has answered or
\* the 30 s since the start timestamp are over
C6_RevealOnlyWhenDue ==
  [][\A k \in Clients : RevealStep(k)
       => \/ allAnswered(players')
          \/ now >= game.start + QUESTION_DURATION_SECONDS * 1000]_vars

\* C6 (amended): answers are revealed only when every non-host player of the host's players
\* snapshot has answered, or the 30 s are over, or the host pressed "Reveal Answers Now"
C6_RevealCauses ==
  [][\A k \in Clients : RevealStep(k)
       => \/ cause' = "all" /\ allAnswered(hc'[k].pl)
          \/ cause' = "timer" /\ now >= hc'[k].ls.start + QUESTION_DURATION_SECONDS * 1000
          \/ cause' = "manual"]_vars

\* C6 witnesses: a reveal by the timer / by the last answer
C6_Witness == cause = "timer" /\ Shown(hc["h"])

Paid(q) == {q[i] : i \in 1..Len(q)}

\* C7 (as claimed): a question that was paid to a player is not paid to that player again by
\* a host screen that starts from fresh local state and observes the same documents
C7_NoRescoreByFreshScreen ==
  [][\A u \in Users : Len(awards'[u]) > Len(awards[u])
       => awards'[u][Len(awards'[u])] \notin Paid(awards[u])]_vars

\* C8 (as claimed): after PLAYING the status is never LOBBY or UPLOAD again, after RESULTS
\* it keeps its value until the game document is deleted
C8_StatusForward ==
  [][/\ game.status = "PLAYING" => game'.status \in {"PLAYING", "RESULTS", "NONE"}
     /\ game.status = "RESULTS" => game'.status \in {"RESULTS", "NONE"}]_vars

C10_NoJoinAfterStart ==
  [][\A u \in Users : (~players[u].exists /\ players'[u].exists)
       => game.status \in {"LOBBY", "UPLOAD"}]_vars

\* C11 (as claimed): a join by a user who already has a player document in the session
\* leaves that document (score, host flag, answer fields) as it is
C11_JoinIdempotent ==
  [][\A k \in Clients :
       (hc[k].joining /\ ~hc'[k].joining /\ players[hc[k].uid].exists)
         => players'[hc[k].uid] = players[hc[k].uid]]_vars

\* a step in which a call of handleNextQuestion resets the player documents
ResetStep(k) == hc'[k].nReset + hc'[k].nOrphan < hc[k].nReset + hc[k].nOrphan

\* C12 (as claimed): the reset of handleNextQuestion erases only answers given for an
\* earlier index, never an answer submitted on the screen of the current question
C12_ResetKeepsNewAnswers ==
  [][\A k \in Clients : ResetStep(k)
       => \A u \in Users : (players[u].lastAnswer # Null /\ players'[u].lastAnswer = Null)
                               => answeredAt[u] < game.idx]_vars

\* C13 (as claimed): a question is scored (a score written for it, or the question marked as
\* scored in lastRunQuestionId) only by its own reveal; the ids of CSV questions are their
\* indices
C13_ScoringOnlyOnReveal ==
  /\ \A u \in Users : Paid(awards[u]) \subseteq revealed
  /\ \A k \in Clients : HostMounted(hc[k]) => hc[k].lastRunQuestionId \in revealed \cup {NoId}

\* C14 (as claimed): whenever the reveal timer of a host screen is armed, its deadline is not
\* later than currentQuestionStartTime + 30 s
C14_DeadlineFromStart ==
  \A k \in Clients : (HostMounted(hc[k]) /\ hc[k].timer # 0)
                        => hc[k].timer <= hc[k].ls.start + QUESTION_DURATION_SECONDS * 1000

\* C15: the pending reveal timer of a host screen was armed for the question that is current
\* on that screen (timerIdx: the index rendered when setTimeout was called), and a reveal by
\* the timer is a reveal by a timer armed for the current question
C15_TimerOfCurrentQuestion ==
  [][\A k \in Clients :
       /\ (HostMounted(hc'[k]) /\ hc'[k].timer # 0) => hc'[k].timerIdx = hc'[k].ls.idx
       /\ (RevealStep(k) /\ cause' = "timer") => hc[k].timerIdx = hc'[k].ls.idx]_vars

\* C15 witness: after an advance, question 1 is revealed by its timer
C15_Witness == cause = "timer" /\ Shown(hc["h"]) /\ hc["h"].ls.idx = 1 /\ revealed = {0, 1}

\* C16: for the response times 0..30000 ms of a correct answer the award is within
\* [MIN_SCORE, MAX_SCORE], is MAX_SCORE at 0 ms and MIN_SCORE at 30000 ms, and an answer one
\* millisecond later never gets more
C16_ScoreDecay ==
  [][(cause' = "scored" /\ players'["p1"].answerTimestamp # 0)
       => /\ expected'["p1"] >= MIN_SCORE /\ expected'["p1"] <= MAX_SCORE
          /\ players'["p1"].answerTimestamp = game'.start => expected'["p1"] = 1000
          /\ players'["p1"].answerTimestamp = game'.start + ScoreMaxMs => expected'["p1"] = 500
          /\ cause = "scored" => expected'["p1"] <= expected["p1"]]_vars

\* C16 witness: the award for the answer given at 30 s, reached through all earlier times
C16_Witness ==
  /\ cause = "scored" /\ players["p1"].answerTimestamp = game.start + ScoreMaxMs
  /\ expected["p1"] = MIN_SCORE

\* C17 (as claimed): a correct answer without answerTimestamp is awarded MIN_SCORE
C17_MissingTimestampMin ==
  (cause = "scored" /\ players["p1"].answerTimestamp = 0) => expected["p1"] = MIN_SCORE

\* a step in which a scoring run writes a score
ScoringStep == \E u \in Users : Len(awards'[u]) > Len(awards[u])

\* C18 (as claimed): the writes of a scoring run change nothing but scores, and not the score
\* of a player whose lastAnswer is null or is not the correct answer of the current question
C18_ScoringFrame ==
  [][ScoringStep
       => \A u \in Users :
            /\ players'[u] = [players[u] EXCEPT !.score = players'[u].score]
            /\ (players[u].lastAnswer = Null \/ players[u].lastAnswer # CorrectAnswer(game'))
                  => players'[u].score = players[u].score]_vars

C20_EndDeletesAll ==
  [][/\ (~game'.exists /\ actor' # Null) => \A u \in Users : ~players'[u].exists
     /\ \A u \in Users : (players[u].exists /\ ~players'[u].exists)
          => \E k \in Clients : /\ hc[k].uid = game.hostUserId
                                /\ ~hc[k].ending /\ hc'[k].ending
                                /\ game.status = "RESULTS"]_vars

\* C21 (as claimed): the stored score of a player document never becomes smaller
C21_ScoreNonDecreasing ==
  [][\A u \in Users : (players[u].exists /\ players'[u].exists)
                         => players'[u].score >= players[u].score]_vars

\* C22 (as claimed): the game document of a live session is never replaced by the creation
\* of another session: its hostUserId stays
C22_LiveCodeNotOverwritten ==
  [][(game.exists /\ game'.exists) => game'.hostUserId = game.hostUserId]_vars

\* C23 (as claimed): the gameCode of a session has exactly 4 characters, each an uppercase
\* letter or a digit
C23_CodeFourUpperAlnum ==
  game.exists => /\ Len(game.gameCode) = 4
                 /\ \A i \in 1..Len(game.gameCode) : game.gameCode[i] \in UpperAlnum

\* the step in which handleCreateGame of client k completes
CreateDone(k) == hc[k].creating /\ ~hc'[k].creating /\ hc'[k].open

\* C24 (as claimed): when createSession completes the session is in LOBBY with no questions,
\* index -1, no start time, hostUserId the creator, and the roster is exactly the creator's
\* record with score 0, host flag true and no answer
C24_CreatedSession ==
  [][\A k \in Clients : CreateDone(k) =>
        /\ game'.exists /\ game'.status = "LOBBY" /\ game'.questions = << >>
        /\ game'.idx = -1 /\ game'.start = 0 /\ game'.hostUserId = hc[k].uid
        /\ Roster(players') = {hc[k].uid}
        /\ players'[hc[k].uid].score = 0 /\ players'[hc[k].uid].isHost
        /\ players'[hc[k].uid].lastAnswer = Null]_vars

\* C25 (as claimed): every write of a player document that the game commits is one the
\* documented rules accept: creations and updates come from the owner of the document and
\* an update leaves the score as it is
C25_WritesWithinRules ==
  [][\A u \in Users : players'[u] # players[u]
        => allowWrite(actor', u, players[u], players'[u])]_vars

\* C26: in the step that makes the status PLAYING for the first time (no start time stored
\* yet) every player document has score 0 and no answer and no answer time, a document
\* created between the reset and the status write too
C26_FreshAtStart ==
  [][(game.status # "PLAYING" /\ game.start = 0 /\ game'.status = "PLAYING")
       => \A u \in Users : players'[u].exists =>
            /\ players'[u].score = 0
            /\ players'[u].lastAnswer = Null
            /\ players'[u].answerTimestamp = 0]_vars

\* C26 witness: the host is between the reset and the status write of handleStartGame, and
\* p2 has joined since the getDocs of the reset
C26_Witness ==
  /\ hc["h"].starting /\ game.status # "PLAYING"
  /\ players["p2"].exists /\ ~hc["h"].pl["p2"].exists

\* C27 (as claimed): lastAnswer and answerTimestamp of a player document are set only while
\* the stored status is PLAYING
C27_AnswerOnlyWhilePlaying ==
  [][\A u \in Users :
        (players'[u].exists /\ players'[u].lastAnswer # Null
           /\ players'[u].lastAnswer # players[u].lastAnswer)
        => game.status = "PLAYING"]_vars

\* the step stores an answer in u's player document
AnswerStep(u) ==
  /\ players[u].exists /\ players'[u].exists /\ players'[u].lastAnswer # Null
  /\ \/ players'[u].lastAnswer # players[u].lastAnswer
     \/ players'[u].answerTimestamp # players[u].answerTimestamp

\* C28: a step that stores an answer of u changes lastAnswer and answerTimestamp of u's
\* document and nothing else: u's score and host flag, the other player documents and the
\* game document stay
C28_SubmitFrame ==
  [][\A u \in Users : AnswerStep(u) =>
        /\ players'[u].score = players[u].score
        /\ players'[u].isHost = players[u].isHost
        /\ \A v \in Users \ {u} : players'[v] = players[v]
        /\ game' = game]_vars

\* C28 witness: p1, who holds a score from question 0, has answered question 1, and there
\* are other player documents
C28_Witness ==
  /\ answeredAt["p1"] = 1 /\ players["p1"].lastAnswer # Null /\ players["p1"].score > 0
  /\ players["p2"].exists /\ players[Host].exists

\* C29 (as claimed): the player document of the game's hostUserId is not among the players
\* the host's screen waits for and scores, and its score stays 0
C29_HostExcluded ==
  /\ \A k \in Clients : HostMounted(hc[k])
        => hc[k].ls.hostUserId \notin activePlayers(hc[k].pl)
  /\ (game.exists /\ players[game.hostUserId].exists) => players[game.hostUserId].score = 0

\* the screen of host client c shows a question that every non-host player of its snapshot
\* has answered
SeesAllAnswers(c) ==
  /\ HostMounted(c) /\ HasQuestion(c.ls) /\ RevealArmed(c)
  /\ activePlayers(c.pl) # {}
  /\ \A u \in activePlayers(c.pl) : c.pl[u].lastAnswer # Null /\ answeredAt[u] = c.ls.idx

\* C30: a host screen that has seen an answer of every non-host player to the current
\* question shows the answers: the reveal is made by the effect in the step that delivers
\* the last answer, without the timer
C30_RevealWhenAllAnswered ==
  \A k \in Clients : SeesAllAnswers(hc[k]) => hc[k].showAnswers

\* C30 witness: the answers of question 1 are shown because all had answered, before the
\* 30 s of the question have passed
C30_Witness ==
  /\ SeesAllAnswers(hc["h"]) /\ hc["h"].showAnswers /\ cause = "all"
  /\ hc["h"].ls.idx = 1 /\ now < hc["h"].ls.start + RevealTimeoutMs

\* the host's screen shows a question with the answers hidden
Hidden == HostMounted(hc["h"]) /\ HasQuestion(hc["h"].ls) /\ ~hc["h"].showAnswers

\* C31: when no player answers, a question shown with hidden answers on the host's screen is
\* eventually revealed (or the host's screen is left): the re-armed timer fires
C31_TimerReveals == Hidden ~> ~Hidden

\* C31 witness: the answers of question 1 were revealed by the timer and nobody has answered
C31_Witness ==
  /\ HostMounted(hc["h"]) /\ hc["h"].ls.idx = 1 /\ hc["h"].showAnswers /\ cause = "timer"
  /\ players["p1"].exists /\ \A u \in Users : players[u].lastAnswer = Null

\* C32: an upload of a CSV text without a valid line and a generation that fails or returns
\* no question leave the game document as it is; every change of the question list stores a
\* list that is not empty, sets the status UPLOAD and keeps the other fields
C32_ReplaceQuestions ==
  [][/\ \A k \in Clients : handleCSVUpload(k, << >>) => game' = game
     /\ \A k \in Clients : GenerateDone(k, << >>) => game' = game
     /\ (game.exists /\ game'.exists /\ game'.questions # game.questions)
          => /\ game'.questions # << >>
             /\ game' = [game EXCEPT !.questions = game'.questions, !.status = "UPLOAD"]]_vars

\* C32 witness: the generated list has replaced the uploaded one in the lobby, and the host is
\* generating again
C32_Witness ==
  /\ game.status = "UPLOAD" /\ game.questions = LlmQuestions(<<"B">>) /\ game.start = 0
  /\ hc["h"].generating /\ hc["h"].ls.questions = game.questions

\* C33 (as claimed): while the status is PLAYING or RESULTS no step changes the question list
C33_QuestionsImmutable ==
  [][(game.status \in {"PLAYING", "RESULTS"} /\ game'.exists)
       => game'.questions = game.questions]_vars

\* what C34 says of the call at each moment
ApiContract(c) ==
  /\ c.tried <= c.retries
  /\ c.phase = "returned" => c.text # Null /\ Len(c.errs) = c.tried - 1
  /\ (c.phase = "thrown" /\ c.key)
       => c.tried = c.retries /\ Len(c.errs) = c.retries /\ c.error = c.errs[c.retries]
  /\ c.waits = [i \in 1..Len(c.waits) |-> (2 ^ (i - 1)) * 1000]
  /\ Len(c.waits) = IF c.phase \in {"wait", "thrown"} /\ c.key THEN Len(c.errs) - 1
                    ELSE Len(c.errs)

\* C34: callGeminiApi makes at most `retries` attempts; it returns the text of the first
\* attempt that succeeds and stops; after failed attempt i (from 0) it waits 2^i seconds;
\* after the last failed attempt it throws that attempt's error; it never returns without a
\* text
C34_BoundedRetries ==
  [][/\ call'.fn = "callGeminiApi" => ApiContract(call')
     /\ (call.fn = "callGeminiApi" /\ call.phase \in {"returned", "thrown"}) => call' = call]_vars

\* C34 witness: the third attempt succeeded after waits of 1 s and 2 s
C34_Witness ==
  /\ call.fn = "callGeminiApi" /\ call.phase = "returned" /\ call.text # Null
  /\ call.retries = 3 /\ call.tried = 3 /\ call.waits = <<1000, 2000>>

\* C34 witness, failure: the third attempt failed and its error was thrown
C34_WitnessThrown ==
  /\ call.fn = "callGeminiApi" /\ call.phase = "thrown" /\ call.tried = 3
  /\ call.error = "empty" /\ call.errs = <<"http", "network", "empty">>

\* the number of positions of seq that hold x
Occurrences(seq, x) == Cardinality({i \in 1..Len(seq) : seq[i] = x})

\* C35 (as claimed): a question returned by parseCSV has 2 to 5 options and its correctAnswer
\* is one of them, exactly once
C35_AnswerOnceAmongOptions ==
  (call.fn = "parseCSV" /\ call.phase = "done" /\ call.result.kept)
    => /\ Len(call.result.options) \in 2..5
       /\ Occurrences(call.result.options, call.result.correctAnswer) = 1

\* C36 (as claimed): while the stored answer of a player is one first submitted after its
\* question was revealed and scored, the player's score does not change
C36_LateAnswerNotScored ==
  [][\A u \in late' : (players[u].exists /\ players'[u].exists)
        => players'[u].score = players[u].score]_vars

\* C37 (as claimed), first part: also when score writes of a run fail, no question is paid
\* twice to a player
C37_FailedRunAtMostOnce == \A u \in Users : NoDuplicates(awards[u])

\* C37, second part: isScoring is set on the host's screen only while a scoring run is in
\* flight, whether its writes fail or not
C37_ScoringFlagCleared ==
  \A k \in Clients : (HostMounted(hc[k]) /\ hc[k].isScoring)
     => \E i \in 1..Len(hc[k].pending) : hc[k].pending[i].kind = "run" /\ hc[k].pending[i].live

\* C38 (as claimed): in every player document lastAnswer is null exactly when
\* answerTimestamp is null or absent
C38_AnswerAndTimeTogether ==
  \A u \in Users : players[u].exists
     => (players[u].lastAnswer = Null <=> players[u].answerTimestamp = 0)

\* C38 witness: p1's answer and its time are stored, p2's document holds neither
C38_Witness ==
  /\ players["p1"].lastAnswer # Null /\ players["p1"].answerTimestamp # 0
  /\ players["p2"].exists /\ players["p2"].lastAnswer = Null
  /\ answeredAt["p1"] = 1

\* C39 (as claimed): while the game document exists exactly one player document has
\* isHost true, it is the document of hostUserId, and hostUserId does not change
C39_OneHostRecord ==
  [][/\ game'.exists => {u \in Users : players'[u].exists /\ players'[u].isHost}
                          = {game'.hostUserId}
     /\ (game.exists /\ game'.exists) => game'.hostUserId = game.hostUserId]_vars

\* C40 (as claimed): in LOBBY and UPLOAD the index is -1 and there is no start time; in
\* PLAYING and RESULTS the index is one of the question list and there is a start time
C40_IndexMatchesStatus ==
  game.exists =>
    /\ game.status \in {"LOBBY", "UPLOAD"} => game.idx = -1 /\ game.start = 0
    /\ game.status \in {"PLAYING", "RESULTS"}
         => game.idx >= 0 /\ game.idx < Len(game.questions) /\ game.start # 0

====
